---- MODULE Spec2Model ----
(***************************************************************************)
(* Model of face_processor.py: the crop-region geometry of                 *)
(* FaceImageProcessor.calculate_crop_region and the per-item / batch       *)
(* policy of process_image, process_folder and main.                       *)
(*                                                                         *)
(* Boxes are tuples <<x, y, w, h>> (Python's (x, y, w, h), 1-indexed       *)
(* here); an image is represented by its shape <<h, w>> (image.shape[:2]). *)
(* Python's // is floor division, as is \div.                              *)
(***************************************************************************)
EXTENDS Integers, Sequences, FiniteSets, TLC

(* ---------------------------- bounds ----------------------------------- *)
MaxEyes == 3
MaxFiles == 5
MaxRuns == 2

(* ------------------------ program constants ---------------------------- *)
target_x == 256
target_y == 170
CROP == 512

max(a, b) == IF a >= b THEN a ELSE b
min(a, b) == IF a <= b THEN a ELSE b

(* ----------------- calculate_crop_region (lines 57-118) ---------------- *)

\* list.insert position used by a stable sort on key e[0]: e goes after
\* every element whose key is <= its own.
RECURSIVE InsertByX(_, _)
InsertByX(e, s) ==
    IF s = <<>> THEN <<e>>
    ELSE IF s[Len(s)][1] <= e[1] THEN Append(s, e)
    ELSE Append(InsertByX(e, SubSeq(s, 1, Len(s) - 1)), s[Len(s)])

\* sorted(eyes, key=lambda e: e[0]) -- stable, ascending in x
RECURSIVE sorted(_)
sorted(eyes) ==
    IF eyes = <<>> THEN <<>>
    ELSE InsertByX(eyes[Len(eyes)], sorted(SubSeq(eyes, 1, Len(eyes) - 1)))

eyes_unsorted(eyes) == eyes

eyes_sorted(eyes) == sorted(eyes)

\* (face_x, face_y): eye midpoint when two or more eyes, else face centre
FacePosition(face, eyes) ==
    IF Len(eyes) >= 2
    THEN LET es        == eyes_sorted(eyes)
             left_eye  == es[1]
             right_eye == es[Len(es)]
         IN  << (left_eye[1] + left_eye[3] \div 2
                  + right_eye[1] + right_eye[3] \div 2) \div 2,
                (left_eye[2] + left_eye[4] \div 2
                  + right_eye[2] + right_eye[4] \div 2) \div 2 >>
    ELSE << face[1] + face[3] \div 2, face[2] + face[4] \div 2 >>

IdealStartOff(pos, target) == pos - target + 1

\* crop_left = face_x - target_x (crop_top = face_y - target_y)
IdealStart(pos, target) == pos - target

AdjustWrongSide(lo, hi, extent) ==
    IF lo < 0 THEN <<extent - CROP, extent>>
    ELSE IF hi > extent THEN <<0, CROP>>
    ELSE <<lo, hi>>

AdjustShrink(lo, hi, extent) ==
    IF lo < 0 THEN <<0, hi>>
    ELSE IF hi > extent THEN <<lo, extent>>
    ELSE <<lo, hi>>

\* "Adjust if crop goes outside image boundaries": the same if/elif is
\* applied to (crop_left, crop_right, w) and to (crop_top, crop_bottom, h)
Adjust(lo, hi, extent) ==
    IF lo < 0 THEN <<0, CROP>>
    ELSE IF hi > extent THEN <<extent - CROP, extent>>
    ELSE <<lo, hi>>

NoFinalBoundsCheck(lo, hi, extent) == <<lo, hi>>

\* "Final bounds check": lo = max(0, lo); hi = min(extent, lo + 512)
\* (the value of hi computed before is overwritten)
FinalBoundsCheck(lo, hi, extent) ==
    LET l == max(0, lo) IN <<l, min(extent, l + CROP)>>

\* one axis of the computation, from the anchor coordinate to (start, end)
CropAxis(pos, target, extent) ==
    LET lo0 == IdealStart(pos, target)
        hi0 == lo0 + CROP
        adj == Adjust(lo0, hi0, extent)
    IN  FinalBoundsCheck(adj[1], adj[2], extent)

\* returns <<crop_left, crop_top, crop_right, crop_bottom>>
calculate_crop_region(shape, face, eyes) ==
    LET h  == shape[1]
        w  == shape[2]
        fp == FacePosition(face, eyes)
        xs == CropAxis(fp[1], target_x, w)
        ys == CropAxis(fp[2], target_y, h)
    IN  <<xs[1], ys[1], xs[2], ys[2]>>

(* ------------------------- the file system ----------------------------- *)
\* Files the input folder may hold.  imread / imwrite give the outcome of
\* cv2.imread on the file and of cv2.imwrite on its output path; faces and
\* roi_eyes are what the two cascades return for the image (roi_eyes in the
\* coordinates of the chosen face region).
File(stem, suffix, is_file, imread, shape, faces, roi_eyes, imwrite) ==
    [stem |-> stem, suffix |-> suffix, is_file |-> is_file, imread |-> imread,
     shape |-> shape, faces |-> faces, roi_eyes |-> roi_eyes,
     imwrite |-> imwrite]

Catalogue ==
    { File("a_big", ".jpg", TRUE, "ok", <<1000, 1000>>,
           << <<450, 450, 100, 100>> >>, <<>>, "ok"),
      File("b_small", ".png", TRUE, "ok", <<300, 300>>,
           << <<10, 10, 20, 20>>, <<100, 100, 100, 100>> >>,
           << <<60, 20, 20, 20>>, <<10, 20, 20, 20>> >>, "ok"),
      File("c_corrupt", ".jpg", TRUE, "none", <<0, 0>>, <<>>, <<>>, "ok"),
      File("d_noface", ".bmp", TRUE, "ok", <<600, 800>>, <<>>, <<>>, "ok"),
      File("e_wide", ".JPG", TRUE, "ok", <<300, 1000>>,
           << <<450, 100, 100, 100>> >>, <<>>, "ok"),
      File("f_full", ".jpg", TRUE, "ok", <<1000, 1000>>,
           << <<10, 10, 1, 1>> >>, <<>>, "false"),
      File("g_noenc", ".webp", TRUE, "ok", <<1000, 1000>>,
           << <<990, 990, 1, 1>> >>, <<>>, "raise"),
      File("notes", ".txt", TRUE, "none", <<0, 0>>, <<>>, <<>>, "ok"),
      File("album", ".png", FALSE, "none", <<0, 0>>, <<>>, <<>>, "ok") }

\* Path.name
Name(f) == f.stem \o f.suffix

\* str.lower() on the suffixes that occur
lower(s) ==
    CASE s = ".JPG" -> ".jpg"
      [] s = ".PNG" -> ".png"
      [] OTHER -> s

supported_formats ==
    {".jpg", ".jpeg", ".png", ".bmp", ".tiff", ".tif", ".webp"}

IsImageFile(f) == f.is_file /\ lower(f.suffix) \in supported_formats

\* get_image_files: the entries of the folder, in iteration order, that are
\* files with a supported suffix
get_image_files(dir) == SelectSeq(dir, IsImageFile)

(* ------------------------ detect_face_and_eyes ------------------------- *)
Area(b) == b[3] * b[4]

\* max(faces, key=lambda f: f[2] * f[3]): the first box of maximal area
RECURSIVE LargestFace(_)
LargestFace(faces) ==
    IF Len(faces) = 1 THEN faces[1]
    ELSE LET rest == LargestFace(Tail(faces))
         IN  IF Area(faces[1]) >= Area(rest) THEN faces[1] ELSE rest

\* returns <<face, eyes_full>>, or <<>> for (None, None)
detect_face_and_eyes(f) ==
    IF Len(f.faces) = 0 THEN <<>>
    ELSE LET face == LargestFace(f.faces)
         IN  << face,
                [k \in 1..Len(f.roi_eyes) |->
                    << face[1] + f.roi_eyes[k][1], face[2] + f.roi_eyes[k][2],
                       f.roi_eyes[k][3], f.roi_eyes[k][4] >>] >>

(* ----------------------------- process_image --------------------------- *)
\* length of a[start:stop] on an axis of length n (numpy basic slicing)
SliceLen(start, stop, n) ==
    LET norm(k) == IF k < 0 THEN max(0, k + n) ELSE min(k, n)
    IN  max(0, norm(stop) - norm(start))

\* shape of image[top:bottom, left:right]
CroppedShape(shape, region) ==
    << SliceLen(region[2], region[4], shape[1]),
       SliceLen(region[1], region[3], shape[2]) >>

NeedsResizeBoth(cropped) == cropped[1] # CROP /\ cropped[2] # CROP

\* cropped.shape[0] != 512 or cropped.shape[1] != 512
NeedsResize(cropped) == cropped[1] # CROP \/ cropped[2] # CROP

\* f"processed_{image_path.name}"
OutputName(f) == "processed_" \o Name(f)

ImWriteKeep(dir, path, img) ==
    IF \E o \in dir : o.path = path
    THEN dir \cup {[path |-> path \o ".1", img |-> img]}
    ELSE dir \cup {[path |-> path, img |-> img]}

\* a successful cv2.imwrite: the file at path is created or replaced
ImWrite(dir, path, img) ==
    {o \in dir : o.path # path} \cup {[path |-> path, img |-> img]}

Outcome(f, ret, region) == [name |-> Name(f), ret |-> ret, region |-> region]

\* process_image(image_path, output_folder): ret is the returned bool, dir
\* the output folder afterwards.  An exception raised inside the try block
\* (cv2.resize of an empty crop, cv2.imwrite without an encoder) is caught
\* and gives False; cv2.imwrite returning False is not looked at.
process_image(f, dir) ==
    IF f.imread = "none"
    THEN [ret |-> FALSE, dir |-> dir, region |-> <<>>]
    ELSE LET det == detect_face_and_eyes(f) IN
    IF det = <<>>
    THEN [ret |-> FALSE, dir |-> dir, region |-> <<>>]
    ELSE LET region  == calculate_crop_region(f.shape, det[1], det[2])
             cropped == CroppedShape(f.shape, region)
             resized == NeedsResize(cropped)
             final   == [shape   |-> IF resized THEN <<CROP, CROP>> ELSE cropped,
                         src     |-> Name(f),
                         cropped |-> cropped,
                         region  |-> region,
                         resized |-> resized]
         IN
    IF resized /\ (cropped[1] = 0 \/ cropped[2] = 0)
    THEN [ret |-> FALSE, dir |-> dir, region |-> region]
    ELSE IF f.imwrite = "raise"
    THEN [ret |-> FALSE, dir |-> dir, region |-> region]
    ELSE IF f.imwrite = "false"
    THEN [ret |-> TRUE, dir |-> dir, region |-> region]
    ELSE [ret |-> TRUE, dir |-> ImWrite(dir, OutputName(f), final),
          region |-> region]

(* --------------------------- process_folder ---------------------------- *)
TallyDropFailed(ok, s, f) == IF ok THEN <<s + 1, f>> ELSE <<s, f>>

\* if process_image(...): successful += 1  else: failed += 1
Tally(ok, s, f) == IF ok THEN <<s + 1, f>> ELSE <<s, f + 1>>

ReturnValueNoFailure(s, f) == f = 0

\* return successful > 0
ReturnValue(s, f) == s > 0

(* ------------------------------- state --------------------------------- *)
VARIABLES
    pc,            \* position in main / process_folder
    run,           \* number of the current invocation of main
    pathKind,      \* what the input path is: "missing", "notdir" or "dir"
    folder,        \* entries of the input folder in iteration order
    image_files,   \* process_folder's list of discovered images
    idx,           \* number of list items the for loop has consumed
    successful,    \* process_folder's counters
    failed,
    result,        \* value returned by process_folder
    exitStatus,    \* exit status of main
    outDir,        \* files of the output folder: set of [path, img]
    calls,         \* names process_image was called with, in call order
    outcomes,      \* per call: name, returned bool, crop region
    firstDir,      \* output folder as the first run left it
    firstOutcomes, \* outcomes of the first run
    gpc,           \* geometry harness: "input" or "returned"
    gShape,        \* geometry harness: image shape <<h, w>>
    gFace,         \* geometry harness: face box
    gEyes,         \* geometry harness: list of eye boxes
    gAnchor,       \* (face_x, face_y) computed by calculate_crop_region
    gRegion        \* value returned by calculate_crop_region

batchVars == <<pc, run, pathKind, folder, image_files, idx, successful, failed,
               result, exitStatus, outDir, calls, outcomes, firstDir,
               firstOutcomes>>
cropVars == <<gpc, gShape, gFace, gEyes, gAnchor, gRegion>>
vars == <<batchVars, cropVars>>

(* ------------------------ inputs of the batch run ----------------------- *)
\* duplicate-free listings of at most MaxFiles catalogue entries (a folder
\* holds each name once; Path.iterdir yields them in arbitrary order)
Listings ==
    {s \in UNION {[1..n -> Catalogue] : n \in 0..MaxFiles} :
        \A i, j \in 1..Len(s) : i # j => s[i] # s[j]}

NoCropState ==
    /\ gpc = "idle"
    /\ gShape = <<0, 0>>
    /\ gFace = <<0, 0, 0, 0>>
    /\ gEyes = <<>>
    /\ gAnchor = <<0, 0>>
    /\ gRegion = <<0, 0, 0, 0>>

Init ==
    /\ pc = "main"
    /\ run = 1
    /\ pathKind \in {"missing", "notdir", "dir"}
    /\ folder \in (IF pathKind = "dir" THEN Listings ELSE {<<>>})
    /\ image_files = <<>>
    /\ idx = 0
    /\ successful = 0
    /\ failed = 0
    /\ result = FALSE
    /\ exitStatus = 0
    /\ outDir = {}
    /\ calls = <<>>
    /\ outcomes = <<>>
    /\ firstDir = {}
    /\ firstOutcomes = <<>>
    /\ NoCropState

(* -------------------------------- main --------------------------------- *)
\* main, lines 201-208: os.path.exists / os.path.isdir, sys.exit(1)
ValidateInput ==
    /\ pc = "main"
    /\ IF pathKind = "dir"
       THEN /\ pc' = "get_image_files"
            /\ UNCHANGED exitStatus
       ELSE /\ pc' = "exited"
            /\ exitStatus' = 1
    /\ UNCHANGED <<run, pathKind, folder, image_files, idx, successful, failed,
                   result, outDir, calls, outcomes, firstDir, firstOutcomes>>
    /\ UNCHANGED cropVars

\* process_folder, lines 161-167: discover the images; none -> return False
GetImageFiles ==
    /\ pc = "get_image_files"
    /\ image_files' = get_image_files(folder)
    /\ IF image_files' = <<>>
       THEN /\ result' = FALSE
            /\ pc' = "returned"
       ELSE /\ UNCHANGED result
            /\ pc' = "mkdir"
    /\ UNCHANGED <<run, pathKind, folder, idx, successful, failed, exitStatus,
                   outDir, calls, outcomes, firstDir, firstOutcomes>>
    /\ UNCHANGED cropVars

\* process_folder, lines 171-178: create the output folder (an existing one
\* is kept with its files), then successful = 0, failed = 0
MakeOutputFolder ==
    /\ pc = "mkdir"
    /\ successful' = 0
    /\ failed' = 0
    /\ idx' = 0
    /\ pc' = "loop"
    /\ UNCHANGED <<run, pathKind, folder, image_files, result, exitStatus,
                   outDir, calls, outcomes, firstDir, firstOutcomes>>
    /\ UNCHANGED cropVars

\* process_folder, lines 180-184: one iteration of the for loop
ProcessNext ==
    /\ pc = "loop"
    /\ idx < Len(image_files)
    /\ LET f == image_files[idx + 1]
           r == process_image(f, outDir)
           t == Tally(r.ret, successful, failed)
       IN  /\ outDir' = r.dir
           /\ successful' = t[1]
           /\ failed' = t[2]
           /\ calls' = Append(calls, Name(f))
           /\ outcomes' = Append(outcomes, Outcome(f, r.ret, r.region))
    /\ idx' = idx + 1
    /\ UNCHANGED <<pc, run, pathKind, folder, image_files, result, exitStatus,
                   firstDir, firstOutcomes>>
    /\ UNCHANGED cropVars

\* process_folder, lines 186-191: the list is exhausted
Return ==
    /\ pc = "loop"
    /\ idx = Len(image_files)
    /\ result' = ReturnValue(successful, failed)
    /\ pc' = "returned"
    /\ UNCHANGED <<run, pathKind, folder, image_files, idx, successful, failed,
                   exitStatus, outDir, calls, outcomes, firstDir,
                   firstOutcomes>>
    /\ UNCHANGED cropVars

\* main, lines 215-218: if not success: sys.exit(1); otherwise status 0
Exit ==
    /\ pc = "returned"
    /\ exitStatus' = IF ~result THEN 1 ELSE 0
    /\ pc' = "exited"
    /\ UNCHANGED <<run, pathKind, folder, image_files, idx, successful, failed,
                   result, outDir, calls, outcomes, firstDir, firstOutcomes>>
    /\ UNCHANGED cropVars

\* the program is started again on the same input and output folders
Rerun ==
    /\ pc = "exited"
    /\ run < MaxRuns
    /\ run' = run + 1
    /\ pc' = "main"
    /\ firstDir' = IF run = 1 THEN outDir ELSE firstDir
    /\ firstOutcomes' = IF run = 1 THEN outcomes ELSE firstOutcomes
    /\ image_files' = <<>>
    /\ idx' = 0
    /\ successful' = 0
    /\ failed' = 0
    /\ result' = FALSE
    /\ exitStatus' = 0
    /\ calls' = <<>>
    /\ outcomes' = <<>>
    /\ UNCHANGED <<pathKind, folder, outDir>>
    /\ UNCHANGED cropVars

Next ==
    \/ ValidateInput
    \/ GetImageFiles
    \/ MakeOutputFolder
    \/ ProcessNext
    \/ Return
    \/ Exit
    \/ Rerun

Spec == Init /\ [][Next]_vars

(* ------------------ calculate_crop_region on its own ------------------- *)
\* image extents, covering images smaller than, equal to and larger than
\* the crop size
Extents == {1, 300, 512, 513, 1000}

\* face boxes: positions inside, at the edges of and outside the images
FaceCoords == {-300, 10, 450, 990, 1300}
FaceBoxes ==
    {<<x, y, 1, 1>> : x \in FaceCoords, y \in FaceCoords}
        \cup {<<450, 450, 100, 100>>, <<200, 300, 101, 151>>}

EyeBoxes ==
    { <<100, 100, 20, 20>>, <<180, 100, 20, 20>>, <<140, 300, 21, 31>>,
      <<100, 420, 31, 20>>, <<900, 700, 20, 20>> }
EyeLists == UNION {[1..n -> EyeBoxes] : n \in 0..MaxEyes}

IdleBatchState ==
    /\ pc = "idle"
    /\ run = 1
    /\ pathKind = "dir"
    /\ folder = <<>>
    /\ image_files = <<>>
    /\ idx = 0
    /\ successful = 0
    /\ failed = 0
    /\ result = FALSE
    /\ exitStatus = 0
    /\ outDir = {}
    /\ calls = <<>>
    /\ outcomes = <<>>
    /\ firstDir = {}
    /\ firstOutcomes = <<>>

InitCrop ==
    /\ IdleBatchState
    /\ gpc = "input"
    /\ gShape \in Extents \X Extents
    /\ gFace \in FaceBoxes
    /\ gEyes \in EyeLists
    /\ gAnchor = <<0, 0>>
    /\ gRegion = <<0, 0, 0, 0>>

\* a call calculate_crop_region(image, face, eyes)
CalculateCropRegion ==
    /\ gpc = "input"
    /\ gAnchor' = FacePosition(gFace, gEyes)
    /\ gRegion' = calculate_crop_region(gShape, gFace, gEyes)
    /\ gpc' = "returned"
    /\ UNCHANGED <<gShape, gFace, gEyes>>
    /\ UNCHANGED batchVars

NextCrop == CalculateCropRegion

SpecCrop == InitCrop /\ [][NextCrop]_vars

(* ========================= properties: geometry ======================== *)
gH == gShape[1]
gW == gShape[2]
gLeft == gRegion[1]
gTop == gRegion[2]
gRight == gRegion[3]
gBottom == gRegion[4]
Returned == gpc = "returned"

\* C1: for every image with width >= 1 and height >= 1, every face box and
\* every eye list, the returned region satisfies 0 <= left < right <= width
\* and 0 <= top < bottom <= height.
C1_RegionInsideImage ==
    Returned =>
        /\ 0 <= gLeft /\ gLeft < gRight /\ gRight <= gW
        /\ 0 <= gTop /\ gTop < gBottom /\ gBottom <= gH

\* an image smaller than the crop size with the anchor beyond its edges
C1_Witness ==
    /\ Returned
    /\ gW < CROP /\ gH < CROP
    /\ gAnchor[1] > gW /\ gAnchor[2] < 0
    /\ gRegion = <<0, 0, gW, gH>>

\* C6: when the ideal window fits in the image, the region is exactly
\* (anchor.x - 256, anchor.y - 170, anchor.x + 256, anchor.y + 342).
WindowFits ==
    /\ gW >= 512 /\ gH >= 512
    /\ 256 <= gAnchor[1] /\ gAnchor[1] <= gW - 256
    /\ 170 <= gAnchor[2] /\ gAnchor[2] <= gH - 342

C6_IdealWindowUnclamped ==
    (Returned /\ WindowFits) =>
        gRegion = <<gAnchor[1] - 256, gAnchor[2] - 170,
                    gAnchor[1] + 256, gAnchor[2] + 342>>

\* the example: 1000x1000, face (450,450,100,100), no eyes
C6_Witness ==
    /\ Returned
    /\ gShape = <<1000, 1000>>
    /\ gFace = <<450, 450, 100, 100>>
    /\ gEyes = <<>>
    /\ WindowFits
    /\ gRegion = <<244, 330, 756, 842>>

\* C8: for images at least 512 in both axes the region is exactly 512x512;
\* per axis it is [0, 512) when the ideal start is negative and
\* [extent - 512, extent) when the ideal end exceeds the extent.
C8_ClampShifts ==
    (Returned /\ gW >= 512 /\ gH >= 512) =>
        /\ gRight - gLeft = 512
        /\ gBottom - gTop = 512
        /\ (gAnchor[1] - 256 < 0) => (gLeft = 0 /\ gRight = 512)
        /\ (gAnchor[1] - 256 + 512 > gW) => (gLeft = gW - 512 /\ gRight = gW)
        /\ (gAnchor[2] - 170 < 0) => (gTop = 0 /\ gBottom = 512)
        /\ (gAnchor[2] - 170 + 512 > gH) => (gTop = gH - 512 /\ gBottom = gH)

\* the example: 1000x1000 with anchor (990, 990)
C8_Witness ==
    /\ Returned
    /\ gShape = <<1000, 1000>>
    /\ gAnchor = <<990, 990>>
    /\ gRegion = <<488, 488, 1000, 1000>>

\* C9: with two or more eyes the anchor is the integer average of the
\* centres of a box of minimum x and a box of maximum x, whatever the face
\* box and whatever the boxes strictly between them; with fewer than two
\* eyes it is the centre of the face box.
Centre(b) == <<b[1] + b[3] \div 2, b[2] + b[4] \div 2>>
IsMinX(eyes, i) == \A k \in 1..Len(eyes) : eyes[i][1] <= eyes[k][1]
IsMaxX(eyes, j) == \A k \in 1..Len(eyes) : eyes[k][1] <= eyes[j][1]
Without(eyes, k) == SubSeq(eyes, 1, k - 1) \o SubSeq(eyes, k + 1, Len(eyes))

C9_AnchorSelection ==
    Returned =>
        IF Len(gEyes) >= 2
        THEN /\ \E i, j \in 1..Len(gEyes) :
                  /\ IsMinX(gEyes, i)
                  /\ IsMaxX(gEyes, j)
                  /\ gAnchor = << (Centre(gEyes[i])[1] + Centre(gEyes[j])[1]) \div 2,
                                  (Centre(gEyes[i])[2] + Centre(gEyes[j])[2]) \div 2 >>
             /\ \A f \in FaceBoxes : FacePosition(f, gEyes) = gAnchor
             /\ \A k \in 1..Len(gEyes) :
                  (~IsMinX(gEyes, k) /\ ~IsMaxX(gEyes, k))
                      => FacePosition(gFace, Without(gEyes, k)) = gAnchor
        ELSE gAnchor = Centre(gFace)

\* the example eyes, given right eye first, with a third box between them
C9_Witness ==
    /\ Returned
    /\ gEyes = << <<180, 100, 20, 20>>, <<140, 300, 21, 31>>,
                  <<100, 100, 20, 20>> >>
    /\ gAnchor = <<150, 110>>

\* C10: whenever the anchor lies inside the image, the returned region
\* contains it.
AnchorInImage ==
    /\ 0 <= gAnchor[1] /\ gAnchor[1] < gW
    /\ 0 <= gAnchor[2] /\ gAnchor[2] < gH

C10_RegionContainsAnchor ==
    (Returned /\ AnchorInImage) =>
        /\ gLeft <= gAnchor[1] /\ gAnchor[1] < gRight
        /\ gTop <= gAnchor[2] /\ gAnchor[2] < gBottom

\* a clamped case: the anchor is in the region but not at (256, 170)
C10_Witness ==
    /\ Returned
    /\ AnchorInImage
    /\ gAnchor[1] - gLeft # 256
    /\ gAnchor[2] - gTop # 170
    /\ gShape = <<513, 1000>>
    /\ gLeft <= gAnchor[1] /\ gAnchor[1] < gRight
    /\ gTop <= gAnchor[2] /\ gAnchor[2] < gBottom

(* ========================== properties: batch ========================== *)
Finished == pc \in {"returned", "exited"}
Names(fs) == [k \in 1..Len(fs) |-> Name(fs[k])]

\* C2: every image written is exactly 512x512; the crop is passed through
\* unchanged only when its height and width are both 512 and is resampled
\* in every other case.
C2_OutputAlways512 ==
    \A o \in outDir :
        /\ o.img.shape = <<512, 512>>
        /\ ~o.img.resized <=> (o.img.cropped[1] = 512 /\ o.img.cropped[2] = 512)
        /\ ~o.img.resized => o.img.shape = o.img.cropped

\* outputs of a source smaller than 512 in both axes, of one smaller in one
\* axis, and of a crop that needed no resampling
C2_Witness ==
    /\ \E o \in outDir : o.img.src = "b_small.png" /\ o.img.resized
                          /\ o.img.cropped = <<300, 300>>
    /\ \E o \in outDir : o.img.src = "e_wide.JPG" /\ o.img.resized
                          /\ o.img.cropped = <<300, 512>>
    /\ \E o \in outDir : ~o.img.resized
    /\ C2_OutputAlways512

\* C3: process_image is called exactly once per discovered input, in list
\* order; the loop always reaches the end of the list; the counters only
\* increase; on completion successful + failed is the number of inputs.
C3_State ==
    /\ calls = SubSeq(Names(image_files), 1, idx)
    /\ successful + failed = Len(calls)
    /\ Finished => calls = Names(image_files)

C3_Step ==
    run' = run => (successful' >= successful /\ failed' >= failed)

C3_LoopCompletes == []C3_State /\ [][C3_Step]_vars

\* the example: five inputs, one corrupt, one faceless
C3_Witness ==
    /\ pc = "returned"
    /\ Len(image_files) = 5
    /\ \E i, j \in 1..5 : /\ image_files[i].imread = "none"
                          /\ image_files[j].imread = "ok"
                          /\ image_files[j].faces = <<>>
    /\ calls = Names(image_files)
    /\ successful = 3
    /\ failed = 2

\* C4: after a run into an empty output folder, the output folder holds
\* exactly one file processed_<name> per input counted successful and none
\* for an input counted failed; the number of files is the success count.
C4_OutputsMatchSuccesses ==
    (run = 1 /\ Finished) =>
        /\ {o.path : o \in outDir} =
             {"processed_" \o outcomes[k].name :
                 k \in {n \in 1..Len(outcomes) : outcomes[n].ret}}
        /\ Cardinality(outDir) = successful

\* C5: the run reports failure exactly when no image was discovered or no
\* image was counted successful, however many items failed.
NothingDone == Len(image_files) = 0 \/ successful = 0

====
